---- MODULE Spec2Model ----
(***************************************************************************)
(* A model of dynamite-nsm's Logstash/ElastiFlow installer and supervisor: *)
(*   lib/services/logstash.py   LogstashConfigurator, LogstashInstaller,    *)
(*                              LogstashProfiler, LogstashProcess,          *)
(*                              install_logstash                            *)
(*   installer/elastiflow.py    ElastiflowConfigurator, ElastiFlowInstaller *)
(*   lib/agent.py               install_agent, stop_agent                   *)
(* Each subsystem has its own variables and its own specification; the      *)
(* variables of the other subsystems are pinned by that specification.      *)
(***************************************************************************)
EXTENDS Integers, Sequences, FiniteSets, TLC

VARIABLES
    \* ---- Process Supervisor (LogstashProcess) and LogstashProfiler ----
    pidFile,    \* /var/run/dynamite/logstash/logstash.pid: absent, garbage or an integer
    runDir,     \* /var/run/dynamite/logstash/: "absent", or the owner of the directory
    envFile,    \* whether /etc/environment exists
    yml,        \* logstash.yml as the configurator sees it
    procs,      \* the PIDs the operating system reports alive
    pending,    \* launcher tasks (multiprocessing.Process) spawned and not yet run
    pc,         \* position of the caller inside LogstashProcess
    pid,        \* self.pid
    retry,      \* start(): retry
    attempts,   \* stop(): attempts
    alive,      \* stop(): alive
    call,       \* what the call in progress (or the last one) did
    prev,       \* the call before it
    \* ---- Environment Store (/etc/environment) ----
    environ,    \* the lines of /etc/environment, as readlines() returns them
    envNl,      \* whether the last line ends with a newline
    efVars,     \* vars(self) of the ElastiflowConfigurator, by environment key
    envOp,      \* the last operation on the file
    envPrev,    \* the file as that operation found it
    \* ---- Config File Editor (LogstashConfigurator) ----
    ymlFile,    \* <configuration_directory>/logstash.yml
    jvmFile,    \* <configuration_directory>/jvm.options
    backups,    \* <configuration_directory>/config_backups/
    config,     \* the LogstashConfigurator object
    cfgHist,    \* what the last operations on it were
    \* ---- Archive Fetcher (download_logstash, download_elasticflow) ----
    mirrors,    \* the mirror files: for each archive, whether each URL in turn works
    fetch,      \* the download in progress (or the last one)
    \* ---- Agent (install_agent, start_agent, stop_agent) ----
    zeek,       \* Zeek on this host: downloaded, installed, running
    filebeat,   \* FileBeat on this host: downloaded, installed, running
    agent,      \* the last agent operation and what it returned
    \* ---- install_logstash ----
    inst,       \* the installation in progress (or the last one)
    \* ---- the installers' environment step ----
    etc         \* /etc/environment as text, and the last step that appended to it

procVars == <<pidFile, runDir, envFile, yml, procs, pending, pc, pid, retry,
              attempts, alive, call, prev>>

envVars == <<environ, envNl, efVars, envOp, envPrev>>

cfgVars == <<ymlFile, jvmFile, backups, config, cfgHist>>

fetchVars == <<mirrors, fetch>>

agentVars == <<zeek, filebeat, agent>>

instVars == <<inst>>

setupVars == <<etc>>

vars == <<procVars, envVars, cfgVars, fetchVars, agentVars, instVars, setupVars>>

\* The steps of one subsystem leave the others alone.
OnlyProc == UNCHANGED <<envVars, cfgVars, fetchVars, agentVars, instVars, setupVars>>
OnlyEnv == UNCHANGED <<procVars, cfgVars, fetchVars, agentVars, instVars, setupVars>>
OnlyCfg == UNCHANGED <<procVars, envVars, fetchVars, agentVars, instVars, setupVars>>
OnlyFetch == UNCHANGED <<procVars, envVars, cfgVars, agentVars, instVars, setupVars>>
OnlyAgent == UNCHANGED <<procVars, envVars, cfgVars, fetchVars, instVars, setupVars>>
OnlyInst == UNCHANGED <<procVars, envVars, cfgVars, fetchVars, agentVars, setupVars>>
OnlySetup == UNCHANGED <<procVars, envVars, cfgVars, fetchVars, agentVars, instVars>>

(***************************************************************************)
(* Bounds.                                                                 *)
(***************************************************************************)
MaxPid == 2          \* the PID file holds 1..MaxPid; processes are 1..MaxPid+1
MaxAttempts == 6     \* stop()'s loop has no bound of its own; the model stops here
MaxPending == 1      \* launcher tasks in flight
MaxLines == 2        \* lines of /etc/environment at the start
MaxEnvLen == 4       \* /etc/environment is not rewritten once it is longer
MaxLineLen == 3      \* characters of a line of logstash.yml
MaxYmlLines == 1     \* lines of logstash.yml at the start
MaxValLen == 2       \* characters of a value given to a setter
MaxWrites == 1       \* calls of write_configs
MaxMirrors == 3      \* URLs in a mirror file
MaxJvmLines == 2     \* lines of jvm.options at the start
MaxEtcLines == 2     \* lines of /etc/environment before the installers run
MaxEtcLen == 4       \* the installers are not run on a longer /etc/environment

(***************************************************************************)
(* Program constants.                                                      *)
(***************************************************************************)
NoPid == -1          \* self.pid = -1
PidOffset == 1       \* int(f.read()) + 1
MaxRetry == 6        \* while retry < 6
TermAttempts == 3    \* if attempts > 3: SIGKILL

FilePids == 1 .. MaxPid
Pids == 1 .. (MaxPid + PidOffset)

Absent == [kind |-> "absent", n |-> 0]
Garbage == [kind |-> "garbage", n |-> 0]
Holds(n) == [kind |-> "int", n |-> n]
PidFiles == {Absent, Garbage} \cup {Holds(n) : n \in FilePids}

YmlStates == {"absent", "unparsable", "ok"}   \* "absent": no file, so no path.logs
DirStates == {"absent", "root", "dynamite"}

(***************************************************************************)
(* utilities.check_pid: a kill -0 of the PID; the sentinel is no process.  *)
(***************************************************************************)
check_pid(p) == p /= NoPid /\ p \in procs

(***************************************************************************)
(* LogstashConfigurator.__init__ raises when /etc/environment cannot be    *)
(* opened (_parse_environment_file) or a line of logstash.yml does not     *)
(* unpack into k, v (_parse_logstashyaml).                                 *)
(***************************************************************************)
ConfiguratorRaises == ~envFile \/ yml = "unparsable"

(***************************************************************************)
(* int(open(pid file).read()) + 1                                          *)
(***************************************************************************)
ReadPid == pidFile.n + PidOffset

(***************************************************************************)
(* The directory and its owner after LogstashProcess.__init__'s            *)
(* mkdir -p and set_ownership_of_file.                                     *)
(***************************************************************************)
EnsureRunDir(d) == IF d = "absent" THEN "dynamite" ELSE d

NoCall == [op |-> "none", pid0 |-> NoPid, alive0 |-> FALSE, launched |-> FALSE,
           ran |-> FALSE, wrote |-> NoPid,
           said |-> NoPid, signals |-> <<>>, polls |-> 0, ret |-> "none"]

NewCall(op) == [NoCall EXCEPT !.op = op, !.pid0 = pid, !.alive0 = check_pid(pid)]

\* What is remembered of the call before the current one.
Summary(c) == [op |-> c.op, ret |-> c.ret]

(***************************************************************************)
(* LogstashProcess.__init__                                                *)
(***************************************************************************)
Construct ==
    /\ pc \in {"none", "idle"}
    /\ IF ConfiguratorRaises
       THEN /\ pc' = "none"
            /\ pid' = NoPid
            /\ UNCHANGED runDir
       ELSE /\ pc' = "idle"
            /\ runDir' = EnsureRunDir(runDir)
            /\ pid' = IF pidFile.kind = "int" THEN ReadPid ELSE NoPid
    /\ prev' = Summary(call)
    /\ call' = [NoCall EXCEPT !.op = "init"]
    /\ UNCHANGED <<pidFile, envFile, yml, procs, pending, retry, attempts, alive>>
    /\ OnlyProc

(***************************************************************************)
(* LogstashProcess.start, up to the launch: self.pid = -1, then the        *)
(* already-running test on that PID, then Process(target=...).start().     *)
(***************************************************************************)
StartPid(p) == NoPid

StartBegin ==
    /\ pc = "idle"
    /\ pending < MaxPending
    /\ prev' = Summary(call)
    /\ pid' = StartPid(pid)
    /\ IF ~check_pid(pid')
       THEN /\ pending' = pending + 1
            /\ call' = [NewCall("start") EXCEPT !.launched = TRUE]
            /\ retry' = 0
            /\ pc' = "poll"
       ELSE /\ call' = [NewCall("start") EXCEPT !.said = pid', !.ret = "True"]
            /\ UNCHANGED <<pending, retry, pc>>
    /\ UNCHANGED <<pidFile, runDir, envFile, yml, procs, attempts, alive>>
    /\ OnlyProc

(***************************************************************************)
(* The launcher task: runuser ... "logstash &>/dev/null & echo $! > pid    *)
(* file". The shell job gets a fresh PID n, which is written to the PID    *)
(* file when its directory exists; the daemon is then alive at n, at n+1,  *)
(* at both or at neither.                                                  *)
(***************************************************************************)
\* The task spawned by the call on record has not run yet; the other pending
\* tasks are those of earlier calls.
Outstanding == call.op = "start" /\ call.launched /\ ~call.ran

Earlier == pending - (IF Outstanding THEN 1 ELSE 0)

start_shell_out ==
    /\ pending > 0
    /\ \E n \in FilePids \ procs :
         \E S \in SUBSET {n, n + PidOffset} :
            /\ procs' = procs \cup S
            /\ pidFile' = IF runDir = "absent" THEN pidFile ELSE Holds(n)
            /\ \/ /\ Outstanding
                  /\ call' = [call EXCEPT !.ran = TRUE,
                                          !.wrote = IF runDir = "absent" THEN NoPid ELSE n]
               \/ /\ Earlier > 0
                  /\ UNCHANGED call
    /\ pending' = pending - 1
    /\ UNCHANGED <<runDir, envFile, yml, pc, pid, retry, attempts, alive, prev>>
    /\ OnlyProc

(***************************************************************************)
(* One iteration of start()'s poll loop (the loop test included).          *)
(***************************************************************************)
RetriedOnceMore == IF retry + 1 <= MaxRetry THEN "poll" ELSE "idle"

Retried == IF retry + 1 < MaxRetry THEN "poll" ELSE "idle"

StartPoll ==
    /\ pc = "poll"
    /\ retry < MaxRetry
    /\ IF pidFile.kind = "absent"
       THEN \* IOError: retry += 1
            /\ pc' = Retried
            /\ call' = [call EXCEPT !.polls = @ + 1,
                                    !.ret = IF Retried = "idle" THEN "False" ELSE @]
            /\ UNCHANGED pid
       ELSE IF pidFile.kind = "garbage"
       THEN \* ValueError from int(): not caught by except IOError
            /\ pc' = "idle"
            /\ call' = [call EXCEPT !.polls = @ + 1, !.ret = "raised"]
            /\ UNCHANGED pid
       ELSE /\ pid' = ReadPid
            /\ IF ~check_pid(pid')
               THEN /\ pc' = Retried
                    /\ call' = [call EXCEPT !.polls = @ + 1,
                                   !.ret = IF Retried = "idle" THEN "False" ELSE @]
               ELSE /\ pc' = "idle"
                    /\ call' = [call EXCEPT !.polls = @ + 1, !.said = pid',
                                            !.ret = "True"]
    \* retry += 1 on a failed poll; the local is gone once start() has returned
    /\ retry' = IF pc' = "poll" THEN retry + 1 ELSE 0
    /\ UNCHANGED <<pidFile, runDir, envFile, yml, procs, pending, attempts, alive, prev>>
    /\ OnlyProc

(***************************************************************************)
(* LogstashProcess.stop                                                    *)
(***************************************************************************)
StopBegin ==
    /\ pc = "idle"
    /\ pc' = "stop_signal"
    /\ alive' = TRUE
    /\ attempts' = 0
    /\ prev' = Summary(call)
    /\ call' = NewCall("stop")
    /\ UNCHANGED <<pidFile, runDir, envFile, yml, procs, pending, pid, retry>>
    /\ OnlyProc

sig_commandEarly == IF attempts >= TermAttempts THEN "SIGKILL" ELSE "SIGTERM"

sig_command == IF attempts > TermAttempts THEN "SIGKILL" ELSE "SIGTERM"

\* if self.pid != -1: os.kill(self.pid, sig_command)
KillsAlways(p) == TRUE

Kills(p) == p /= NoPid

\* except Exception as e: write the error; return False
ExceptGoesOn == [pc |-> "stop_poll", ret |-> "none"]

Except == [pc |-> "idle", ret |-> "False"]

\* The first half of a loop iteration: choose the signal, attempts += 1, os.kill.
\* os.kill raises ESRCH when the process is gone and may raise EPERM.
StopSignal ==
    /\ pc = "stop_signal"
    /\ attempts < MaxAttempts
    /\ IF Kills(pid)
       THEN \E permitted \in BOOLEAN :
              IF pid \in procs /\ permitted
              THEN /\ call' = [call EXCEPT !.signals = Append(@, sig_command)]
                   /\ pc' = "stop_poll"
              ELSE /\ call' = [call EXCEPT !.ret = Except.ret]
                   /\ pc' = Except.pc
       ELSE /\ pc' = "stop_poll"
            /\ UNCHANGED call
    \* the locals are gone once stop() has returned
    /\ attempts' = IF pc' = "idle" THEN 0 ELSE attempts + 1
    /\ alive' = (pc' /= "idle")
    /\ UNCHANGED <<pidFile, runDir, envFile, yml, procs, pending, pid, retry, prev>>
    /\ OnlyProc

\* The second half: time.sleep(1); alive = check_pid(self.pid); the loop test.
StopPoll ==
    /\ pc = "stop_poll"
    /\ alive' = check_pid(pid)
    /\ IF alive'
       THEN pc' = "stop_signal" /\ UNCHANGED <<call, attempts>>
       ELSE pc' = "idle" /\ call' = [call EXCEPT !.ret = "True"] /\ attempts' = 0
    /\ UNCHANGED <<pidFile, runDir, envFile, yml, procs, pending, pid, retry, prev>>
    /\ OnlyProc

(***************************************************************************)
(* The operating system: a process exits (by itself or from a signal).     *)
(***************************************************************************)
ProcExit ==
    /\ \E p \in procs : procs' = procs \ {p}
    /\ UNCHANGED <<pidFile, runDir, envFile, yml, pending, pc, pid, retry, attempts,
                   alive, call, prev>>
    /\ OnlyProc

(***************************************************************************)
(* LogstashProfiler.__init__. The four filesystem checks and               *)
(* _is_configured only read; _is_running builds a LogstashProcess and asks *)
(* its status(), any exception meaning "not running".                      *)
(***************************************************************************)
_is_running ==
    IF ConfiguratorRaises \/ yml = "absent"
    THEN FALSE
    ELSE check_pid(IF pidFile.kind = "int" THEN ReadPid ELSE NoPid)

Profile ==
    /\ pc \in {"none", "idle"}
    /\ runDir' = IF ConfiguratorRaises THEN runDir ELSE EnsureRunDir(runDir)
    /\ prev' = Summary(call)
    /\ call' = [NoCall EXCEPT !.op = "profile",
                              !.ret = IF _is_running THEN "True" ELSE "False"]
    /\ UNCHANGED <<pidFile, envFile, yml, procs, pending, pc, pid, retry, attempts, alive>>
    /\ OnlyProc

(***************************************************************************)
(*                 Environment Store: /etc/environment                     *)
(*                                                                         *)
(* A line is the text before its newline: the text before the first '='    *)
(* (the whole text when there is none), whether it has an '=', and the     *)
(* text after it. Every line but possibly the last ends with a newline.    *)
(***************************************************************************)
ManagedKeys == {"ELASTIFLOW_NETFLOW_IPV4_HOST", "ELASTIFLOW_ZEEK_IPV4_PORT"}
OtherKeys == {"JAVA_HOME", "export ELASTIFLOW_ZEEK_IPV4_PORT"}
EnvVals == {"0.0.0.0", "127.0.0.1"}

KeyLine(k, v) == [key |-> k, eq |-> TRUE, val |-> v]
Blank == [key |-> "", eq |-> FALSE, val |-> ""]
Comment == [key |-> "# dynamite", eq |-> FALSE, val |-> ""]

EnvLines == {KeyLine(k, v) : k \in ManagedKeys \cup OtherKeys, v \in EnvVals}
                \cup {Blank, Comment}

SeqsUpTo(S, n) == UNION {[1 .. m -> S] : m \in 0 .. n}

\* The orders in which a dict with the keys S may be iterated.
Orders(S) == {o \in [1 .. Cardinality(S) -> S] : \A k \in S : \E i \in DOMAIN o : o[i] = k}

\* elastiflow_vars_map.pop(env_key, None)
Pop(map, k) == [x \in DOMAIN map \ {k} |-> map[x]]

(***************************************************************************)
(* write_environment_variables, the loop over the lines read: a line whose *)
(* key is still in the map becomes KEY=value and the key is popped; any    *)
(* other line is kept with the newline it was read with. Every line is     *)
(* then followed by one more newline, so a kept line that had its own is   *)
(* followed by an empty line.                                              *)
(***************************************************************************)
RECURSIVE RewriteLines(_, _, _, _, _)
RewriteLines(lines, nl, i, map, out) ==
    IF i > Len(lines)
    THEN [out |-> out, map |-> map]
    ELSE LET line == lines[i]
             hasNl == i < Len(lines) \/ nl
         IN  IF line.eq /\ line.key \in DOMAIN map
             THEN RewriteLines(lines, nl, i + 1, Pop(map, line.key),
                               Append(out, KeyLine(line.key, map[line.key])))
             ELSE RewriteLines(lines, nl, i + 1, map,
                               IF hasNl THEN out \o <<line, Blank>>
                                        ELSE Append(out, line))

\* The loop over the keys left in the map, in the map's iteration order.
UnwrittenNone(map, order) == <<>>

Unwritten(map, order) == [i \in DOMAIN order |-> KeyLine(order[i], map[order[i]])]

(***************************************************************************)
(* ElastiflowConfigurator.write_environment_variables                      *)
(***************************************************************************)
write_environment_variables ==
    /\ Len(environ) <= MaxEnvLen
    /\ LET r == RewriteLines(environ, envNl, 1, efVars, <<>>)
       IN  \E order \in Orders(DOMAIN r.map) :
              environ' = r.out \o Unwritten(r.map, order)
    /\ envNl' = TRUE
    /\ envOp' = "write"
    /\ envPrev' = environ
    /\ UNCHANGED efVars
    /\ OnlyEnv

EnvIdle ==
    /\ environ = <<>>
    /\ envNl = TRUE
    /\ efVars = [k \in ManagedKeys |-> "0.0.0.0"]
    /\ envOp = "none"
    /\ envPrev = <<>>

(***************************************************************************)
(*          Config File Editor: logstash.yml and jvm.options               *)
(*                                                                         *)
(* A line of logstash.yml is the sequence of its characters, without the   *)
(* newline. "k" stands for any character that is not special to the        *)
(* parser, "'" for either quote character.                                 *)
(***************************************************************************)
Chars == {"k", ":", " ", "'", "#"}

Strings(n) == SeqsUpTo(Chars, n)

\* str.strip()
RECURSIVE lstrip(_)
lstrip(str) == IF str /= <<>> /\ Head(str) = " " THEN lstrip(Tail(str)) ELSE str

RECURSIVE rstrip(_)
rstrip(str) ==
    IF str /= <<>> /\ str[Len(str)] = " "
    THEN rstrip(SubSeq(str, 1, Len(str) - 1))
    ELSE str

strip(str) == rstrip(lstrip(str))

\* str.split(':'): the parts between all the delimiters
RECURSIVE SplitFrom(_, _, _)
SplitFrom(str, cur, parts) ==
    IF str = <<>>
    THEN Append(parts, cur)
    ELSE IF Head(str) = ":"
         THEN SplitFrom(Tail(str), <<>>, Append(parts, cur))
         ELSE SplitFrom(Tail(str), Append(cur, Head(str)), parts)

split(str) == SplitFrom(str, <<>>, <<>>)

IsQuote(c) == c = "'"
NotQuote(c) == ~IsQuote(c)

\* .replace('"', '').replace("'", '')
unquote(str) == SelectSeq(str, NotQuote)

startswith(str, c) == str /= <<>> /\ Head(str) = c

contains(str, c) == \E i \in DOMAIN str : str[i] = c

(***************************************************************************)
(* A dict, in insertion order: a sequence of items with distinct keys.     *)
(***************************************************************************)
Item(k, v) == [k |-> k, v |-> v]

HasItem(d, k) == \E i \in DOMAIN d : d[i].k = k

Index(d, k) == CHOOSE i \in DOMAIN d : d[i].k = k

\* d[k] = v
SetItem(d, k, v) ==
    IF HasItem(d, k) THEN [d EXCEPT ![Index(d, k)].v = v] ELSE Append(d, Item(k, v))

None == <<"None">>

\* d.get(k)
get(d, k) == IF HasItem(d, k) THEN d[Index(d, k)].v ELSE None

Keys(d) == {d[i].k : i \in DOMAIN d}

(***************************************************************************)
(* _parse_logstashyaml: a line that is no comment and has a ':' must       *)
(* unpack into exactly k, v, or the ValueError leaves the constructor.     *)
(***************************************************************************)
Parsed(line) == split(strip(line))

IsEntry(line) == ~startswith(line, "#") /\ contains(line, ":")

Unpacks(line) == Len(Parsed(line)) = 2

RECURSIVE ParseFrom(_, _, _)
ParseFrom(lines, i, d) ==
    IF i > Len(lines)
    THEN d
    ELSE IF IsEntry(lines[i])
         THEN ParseFrom(lines, i + 1,
                        SetItem(d, Parsed(lines[i])[1], unquote(strip(Parsed(lines[i])[2]))))
         ELSE ParseFrom(lines, i + 1, d)

YamlRaises(file) ==
    file.exists /\ \E i \in DOMAIN file.lines : IsEntry(file.lines[i]) /\ ~Unpacks(file.lines[i])

_parse_logstashyaml(file) == IF file.exists THEN ParseFrom(file.lines, 1, <<>>) ELSE <<>>

(***************************************************************************)
(* jvm.options: a line is its flag and, for the heap flags, the size that  *)
(* follows it.                                                             *)
(***************************************************************************)
JvmLine(flag, mem) == [flag |-> flag, mem |-> mem]
JvmBlank == JvmLine("", "")
Unset == "unset"

RECURSIVE ParseJvmFrom(_, _, _)
ParseJvmFrom(lines, i, d) ==
    IF i > Len(lines)
    THEN d
    ELSE IF lines[i].flag = "-Xms"
         THEN ParseJvmFrom(lines, i + 1, [d EXCEPT !.initial_memory = lines[i].mem])
         ELSE IF lines[i].flag = "-Xmx"
              THEN ParseJvmFrom(lines, i + 1, [d EXCEPT !.maximum_memory = lines[i].mem])
              ELSE ParseJvmFrom(lines, i + 1, d)

NoJvmOptions == [initial_memory |-> Unset, maximum_memory |-> Unset]

_parse_jvm_options(file) ==
    IF file.exists THEN ParseJvmFrom(file.lines, 1, NoJvmOptions) ELSE NoJvmOptions

(***************************************************************************)
(* _overwrite_jvm_options: a heap line becomes the flag and the value in   *)
(* memory; any other line is kept with the newline it was read with; every *)
(* line is then followed by one more newline.                              *)
(***************************************************************************)
RECURSIVE OverwriteFrom(_, _, _, _, _)
OverwriteFrom(lines, nl, i, opts, out) ==
    IF i > Len(lines)
    THEN out
    ELSE LET line == lines[i]
             hasNl == i < Len(lines) \/ nl
         IN  IF line.flag = "-Xms"
             THEN OverwriteFrom(lines, nl, i + 1, opts,
                                Append(out, JvmLine("-Xms", opts.initial_memory)))
             ELSE IF line.flag = "-Xmx"
                  THEN OverwriteFrom(lines, nl, i + 1, opts,
                                     Append(out, JvmLine("-Xmx", opts.maximum_memory)))
                  ELSE OverwriteFrom(lines, nl, i + 1, opts,
                                     IF hasNl THEN out \o <<line, JvmBlank>>
                                              ELSE Append(out, line))

\* self.jvm_config_options[...] raises KeyError when the key was never parsed or set
OverwriteRaises(file, opts) ==
    \E i \in DOMAIN file.lines :
        \/ file.lines[i].flag = "-Xms" /\ opts.initial_memory = Unset
        \/ file.lines[i].flag = "-Xmx" /\ opts.maximum_memory = Unset

_overwrite_jvm_options(file, opts) ==
    [exists |-> TRUE, lines |-> OverwriteFrom(file.lines, file.nl, 1, opts, <<>>), nl |-> TRUE]

NoFile == [exists |-> FALSE, lines |-> <<>>, nl |-> TRUE]
File(lines, nl) == [exists |-> TRUE, lines |-> lines, nl |-> nl]

NoConfig == [state |-> "none", ls_config_options |-> <<>>, jvm_config_options |-> NoJvmOptions]

NoHist == [op |-> "none", base |-> <<>>, sets |-> {}, wrote |-> <<>>, writes |-> 0,
           jvm |-> NoFile]

(***************************************************************************)
(* LogstashConfigurator.__init__                                           *)
(***************************************************************************)
Load ==
    /\ IF YamlRaises(ymlFile) \/ ~envFile
       THEN /\ config' = NoConfig
            /\ cfgHist' = [cfgHist EXCEPT !.op = IF @ = "write" THEN "reload_raised"
                                                              ELSE "load_raised"]
       ELSE /\ config' = [state |-> "loaded",
                          ls_config_options |-> _parse_logstashyaml(ymlFile),
                          jvm_config_options |-> _parse_jvm_options(jvmFile)]
            /\ cfgHist' = [cfgHist EXCEPT !.op = IF @ = "write" THEN "reload" ELSE "load",
                                          !.base = IF cfgHist.op = "write"
                                                   THEN @
                                                   ELSE _parse_logstashyaml(ymlFile),
                                          !.sets = IF cfgHist.op = "write" THEN @ ELSE {}]
    /\ UNCHANGED <<ymlFile, jvmFile, backups>>
    /\ OnlyCfg

(***************************************************************************)
(* set_log_path, set_node_name, set_data_path, set_pipeline_batch_size,    *)
(* set_pipeline_batch_delay: self.ls_config_options[key] = value           *)
(***************************************************************************)
KnownKeys == {<<"k">>}

Set ==
    /\ config.state = "loaded"
    /\ cfgHist.op \in {"load", "set"}
    /\ cfgHist.writes < MaxWrites
    /\ \E key \in KnownKeys, value \in Strings(MaxValLen) :
          /\ config' = [config EXCEPT !.ls_config_options = SetItem(@, key, value)]
          /\ cfgHist' = [cfgHist EXCEPT !.op = "set", !.sets = @ \cup {key}]
    /\ UNCHANGED <<ymlFile, jvmFile, backups>>
    /\ OnlyCfg

(***************************************************************************)
(* set_jvm_initial_memory, set_jvm_maximum_memory: str(int(gigs)) + 'g'    *)
(***************************************************************************)
Gigs == {"4g"}

SetJvm ==
    /\ config.state = "loaded"
    /\ cfgHist.op \in {"load", "set"}
    /\ cfgHist.writes < MaxWrites
    /\ \E mem \in Gigs :
          \/ config' = [config EXCEPT !.jvm_config_options.initial_memory = mem]
          \/ config' = [config EXCEPT !.jvm_config_options.maximum_memory = mem]
    /\ config' /= config
    /\ cfgHist' = [cfgHist EXCEPT !.op = "set"]
    /\ UNCHANGED <<ymlFile, jvmFile, backups>>
    /\ OnlyCfg

(***************************************************************************)
(* write_configs: mkdir -p config_backups; move logstash.yml there; copy   *)
(* jvm.options there; write every item as "k: v" to a new logstash.yml;    *)
(* _overwrite_jvm_options. An exception ends it where it is raised.        *)
(***************************************************************************)
YmlLine(item) == item.k \o <<":", " ">> \o item.v

Dump(d) == [i \in DOMAIN d |-> YmlLine(d[i])]

write_configs ==
    /\ config.state = "loaded"
    /\ cfgHist.writes < MaxWrites
    /\ IF ~ymlFile.exists
       THEN \* shutil.move raises
            /\ cfgHist' = [cfgHist EXCEPT !.op = "write_raised", !.writes = @ + 1]
            /\ UNCHANGED <<ymlFile, jvmFile, backups>>
       ELSE IF ~jvmFile.exists
       THEN \* shutil.copy raises, after the move
            /\ ymlFile' = NoFile
            /\ backups' = [backups EXCEPT !.yml = @ \cup {ymlFile.lines}]
            /\ cfgHist' = [cfgHist EXCEPT !.op = "write_raised", !.writes = @ + 1]
            /\ UNCHANGED jvmFile
       ELSE /\ ymlFile' = File(Dump(config.ls_config_options), TRUE)
            /\ backups' = [yml |-> backups.yml \cup {ymlFile.lines},
                           jvm |-> backups.jvm \cup {jvmFile.lines}]
            /\ IF OverwriteRaises(jvmFile, config.jvm_config_options)
               THEN /\ cfgHist' = [cfgHist EXCEPT !.op = "write_raised", !.writes = @ + 1]
                    /\ UNCHANGED jvmFile
               ELSE /\ jvmFile' = _overwrite_jvm_options(jvmFile, config.jvm_config_options)
                    /\ cfgHist' = [cfgHist EXCEPT !.op = "write", !.writes = @ + 1,
                                                  !.wrote = config.ls_config_options,
                                                  !.jvm = jvmFile]
    /\ UNCHANGED config
    /\ OnlyCfg

CfgIdle ==
    /\ ymlFile = NoFile
    /\ jvmFile = NoFile
    /\ backups = [yml |-> {}, jvm |-> {}]
    /\ config = NoConfig
    /\ cfgHist = NoHist

(***************************************************************************)
(*        Archive Fetcher: download_logstash, download_elasticflow         *)
(*                                                                         *)
(* A mirror file is the sequence of its URLs, each "good" or "bad": what   *)
(* utilities.download_file returns for it.                                 *)
(***************************************************************************)
Archives == {"logstash", "elastiflow"}

MirrorFiles == SeqsUpTo({"bad", "good"}, MaxMirrors)

download_file(url) == url = "good"

\* if utilities.download_file(...): break
BreaksNever(ok) == FALSE

Breaks(ok) == ok

NoFetch == [archive |-> "none", next |-> 0, attempted |-> <<>>, done |-> FALSE]

\* for url in open(mirrors).readlines(): the loop is entered
FetchBegin(archive) ==
    /\ fetch.archive = "none" \/ fetch.done
    /\ fetch' = [archive |-> archive, next |-> 1, attempted |-> <<>>,
                 done |-> mirrors[archive] = <<>>]
    /\ UNCHANGED mirrors
    /\ OnlyFetch

\* One iteration: the next URL is tried; the loop ends on success or after the last URL.
FetchStep(archive) ==
    /\ fetch.archive = archive
    /\ ~fetch.done
    /\ LET url == mirrors[archive][fetch.next]
       IN  fetch' = [fetch EXCEPT !.attempted = Append(@, fetch.next),
                                  !.next = @ + 1,
                                  !.done = Breaks(download_file(url))
                                              \/ fetch.next = Len(mirrors[archive])]
    /\ UNCHANGED mirrors
    /\ OnlyFetch

download_logstash == FetchBegin("logstash") \/ FetchStep("logstash")

download_elasticflow == FetchBegin("elastiflow") \/ FetchStep("elastiflow")

FetchIdle ==
    /\ mirrors = [a \in Archives |-> <<>>]
    /\ fetch = NoFetch

(***************************************************************************)
(*               Agent: install_agent, start_agent, stop_agent             *)
(*                                                                         *)
(* A component is what its profiler reports of it. A profiler is a         *)
(* snapshot: its fields are computed when it is constructed.               *)
(***************************************************************************)
Components == [is_downloaded : BOOLEAN, is_installed : BOOLEAN, is_running : BOOLEAN]

\* zeek.ZeekProfiler(...), filebeat.FileBeatProfiler()
Profiler(component) == component

NoAgent == [op |-> "none", ret |-> "none", refused |-> FALSE,
            zeek_stopped |-> "none", filebeat_stopped |-> "none"]

\* The component after download and extract, when it was not downloaded.
Fetched(profiler, component, ok) ==
    IF ~profiler.is_downloaded
    THEN [component EXCEPT !.is_downloaded = @ \/ ok]
    ELSE component

\* The component after its setup, when it was not installed.
SetUp(profiler, component, ok) ==
    IF ~profiler.is_installed
    THEN [component EXCEPT !.is_installed = @ \/ (ok /\ component.is_downloaded)]
    ELSE component

\* return zeek_profiler.is_installed and filebeat_profiler.is_installed
InstallResult(zeek_profiler, filebeat_profiler) ==
    zeek_profiler.is_installed /\ filebeat_profiler.is_installed

Bool(b) == IF b THEN "True" ELSE "False"

(***************************************************************************)
(* install_agent. Its inputs: whether a package manager is found           *)
(* (install_dependencies) and whether each download and each setup works.  *)
(***************************************************************************)
install_agent ==
    /\ \E deps, zeek_dl, zeek_setup, fb_dl, fb_setup \in BOOLEAN :
         LET zeek_profiler == Profiler(zeek)
             filebeat_profiler == Profiler(filebeat)
             zeek1 == Fetched(zeek_profiler, zeek, zeek_dl)
             zeek2 == SetUp(zeek_profiler, zeek1, zeek_setup)
             fb1 == Fetched(filebeat_profiler, filebeat, fb_dl)
             fb2 == SetUp(filebeat_profiler, fb1, fb_setup)
         IN  IF zeek_profiler.is_running \/ filebeat_profiler.is_running
             THEN /\ agent' = [NoAgent EXCEPT !.op = "install", !.ret = "False",
                                              !.refused = TRUE]
                  /\ UNCHANGED <<zeek, filebeat>>
             ELSE IF ~zeek_profiler.is_installed /\ ~deps
             THEN /\ agent' = [NoAgent EXCEPT !.op = "install", !.ret = "False"]
                  /\ zeek' = zeek1
                  /\ UNCHANGED filebeat
             ELSE /\ zeek' = zeek2
                  /\ filebeat' = fb2
                  /\ agent' = [NoAgent EXCEPT
                                 !.op = "install",
                                 !.ret = Bool(InstallResult(zeek_profiler, filebeat_profiler))]
    /\ OnlyAgent

(***************************************************************************)
(* start_agent. Its inputs: what each start() returns.                     *)
(***************************************************************************)
start_agent ==
    /\ zeek.is_installed /\ filebeat.is_installed
    /\ \E zeek_ok, fb_ok \in BOOLEAN :
         /\ zeek' = [zeek EXCEPT !.is_running = @ \/ zeek_ok]
         /\ filebeat' = [filebeat EXCEPT !.is_running = @ \/ (zeek_ok /\ fb_ok)]
         /\ agent' = [NoAgent EXCEPT !.op = "start", !.ret = Bool(zeek_ok /\ fb_ok)]
    /\ OnlyAgent

(***************************************************************************)
(* stop_agent. Its inputs: what each stop() returns.                       *)
(***************************************************************************)
\* the value returned when a stop() reported failure
StopFailed == "True"

stop_agent ==
    /\ zeek.is_installed /\ filebeat.is_installed
    /\ \E zeek_ok, fb_ok \in BOOLEAN :
         IF ~zeek_ok
         THEN /\ agent' = [NoAgent EXCEPT !.op = "stop", !.ret = StopFailed,
                                          !.zeek_stopped = "False"]
              /\ UNCHANGED <<zeek, filebeat>>
         ELSE /\ zeek' = [zeek EXCEPT !.is_running = FALSE]
              /\ filebeat' = [filebeat EXCEPT !.is_running = @ /\ ~fb_ok]
              /\ agent' = [NoAgent EXCEPT !.op = "stop",
                                          !.ret = IF fb_ok THEN "True" ELSE StopFailed,
                                          !.zeek_stopped = "True",
                                          !.filebeat_stopped = Bool(fb_ok)]
    /\ OnlyAgent

AgentIdle ==
    /\ zeek = [is_downloaded |-> FALSE, is_installed |-> FALSE, is_running |-> FALSE]
    /\ filebeat = [is_downloaded |-> FALSE, is_installed |-> FALSE, is_running |-> FALSE]
    /\ agent = NoAgent

(***************************************************************************)
(*                          install_logstash                               *)
(*                                                                         *)
(* Memory is counted in units of 1000 ** 2 bytes. The side effects of the  *)
(* installation are its steps, in the order the code takes them; any step  *)
(* may raise, which ends the installation with False.                      *)
(***************************************************************************)
MinMemory == 6 * 1000

Memories == {0, MinMemory - 1, MinMemory, MinMemory + 1}

\* if utilities.get_memory_available_bytes() < 6 * (1000 ** 3)
TooLittleOffByOne(mem) == mem < MinMemory - 1

TooLittle(mem) == mem < MinMemory

Steps == << "download_java", "extract_java", "setup_java", "create_dynamite_user",
            "download_logstash", "extract_logstash",
            "_create_logstash_directories", "_copy_logstash_files_and_directories",
            "_create_logstash_environment_variables", "_setup_default_logstash_configs",
            "_update_sysctl", "_setup_elastiflow", "_install_logstash_plugins",
            "set_ownership_of_file" >>

JdkSteps == {"download_java", "extract_java", "setup_java"}
UserSteps == {"create_dynamite_user"}

Skipped(step, jdk, user) ==
    \/ step \in JdkSteps /\ ~jdk
    \/ step \in UserSteps /\ ~user

\* The first step at or after position i that the flags do not skip.
RECURSIVE NextStep(_, _, _)
NextStep(i, jdk, user) ==
    IF i > Len(Steps) \/ ~Skipped(Steps[i], jdk, user)
    THEN i
    ELSE NextStep(i + 1, jdk, user)

NoInstall == [pc |-> 0, mem |-> 0, install_jdk |-> FALSE, create_dynamite_user |-> FALSE,
              effects |-> <<>>, ret |-> "none"]

\* The entry of install_logstash: the memory test.
install_logstash ==
    /\ inst.pc = 0
    /\ \E mem \in Memories, jdk, user \in BOOLEAN :
         inst' = [NoInstall EXCEPT
                    !.mem = mem, !.install_jdk = jdk, !.create_dynamite_user = user,
                    !.pc = IF TooLittle(mem) THEN 0 ELSE NextStep(1, jdk, user),
                    !.ret = IF TooLittle(mem) THEN "False" ELSE "none"]
    /\ OnlyInst

\* One step of the try block, which does its work or raises.
InstallStep ==
    /\ inst.pc \in DOMAIN Steps
    /\ \E raises \in BOOLEAN :
         IF raises
         THEN inst' = [inst EXCEPT !.pc = 0, !.ret = "False"]
         ELSE LET n == NextStep(inst.pc + 1, inst.install_jdk, inst.create_dynamite_user)
              IN  inst' = [inst EXCEPT !.effects = Append(@, Steps[inst.pc]),
                                       !.pc = IF n > Len(Steps) THEN 0 ELSE n,
                                       !.ret = IF n > Len(Steps) THEN "True" ELSE "none"]
    /\ OnlyInst

InstIdle == inst = NoInstall

(***************************************************************************)
(*        The installers' environment step: /etc/environment as text       *)
(*                                                                         *)
(* A line is the sequence of its tokens, without the newline; a key occurs *)
(* in a text only as a whole token, so "KEY in text" is a search for the   *)
(* token. The last line may lack its newline.                              *)
(***************************************************************************)
LogstashKeys == <<"LS_PATH_CONF", "LS_HOME">>

ElastiflowKeys == <<"ELASTIFLOW_DICT_PATH", "ELASTIFLOW_TEMPLATE_PATH",
                    "ELASTIFLOW_GEOIP_DB_PATH", "ELASTIFLOW_DEFINITION_PATH">>

ExpectedKeys == {LogstashKeys[i] : i \in DOMAIN LogstashKeys}
                    \cup {ElastiflowKeys[i] : i \in DOMAIN ElastiflowKeys}

Definition(k, v) == <<k, "=", v>>

\* The lines of a file that name the key k: its definition, a comment, the
\* definition of a longer key, a value that refers to it.
LinesNaming(k) == {Definition(k, "path"), <<"#", k>>, <<"OLD_", k, "=", "path">>,
                   <<"PATH", "=", "$", k>>}

TextLines == UNION {LinesNaming(k) : k \in ExpectedKeys}
                 \cup {Definition("JAVA_HOME", "path"),
                       Definition("ELASTIFLOW_ZEEK_IPV4_PORT", "127.0.0.1"), <<>>}

Text(lines, nl) == [lines |-> lines, nl |-> nl]

\* 'KEY' not in open('/etc/environment').read()
NotInText(k, text) == \A i \in DOMAIN text.lines : ~contains(text.lines[i], k)

\* echo KEY="value" >> /etc/environment
Echo(text, k) ==
    IF text.nl
    THEN Text(Append(text.lines, Definition(k, "path")), TRUE)
    ELSE Text([text.lines EXCEPT ![Len(text.lines)] = @ \o Definition(k, "path")], TRUE)

\* The tests, one key after the other, each on the file as it is by then.
RECURSIVE AppendMissing(_, _, _)
AppendMissing(text, keys, i) ==
    IF i > Len(keys)
    THEN text
    ELSE AppendMissing(IF NotInText(keys[i], text) THEN Echo(text, keys[i]) ELSE text,
                       keys, i + 1)

\* ElastiflowConfigurator(): the values of __init__
Defaults == [k \in ManagedKeys |-> "0.0.0.0"]

\* line.split('=')[0] is a key of the map
EnvKeyIn(line, map) == Len(line) >= 2 /\ line[1] \in DOMAIN map /\ line[2] = "="

\* write_environment_variables on the text: the loop over the lines read.
RECURSIVE RewriteText(_, _, _, _)
RewriteText(text, i, map, out) ==
    IF i > Len(text.lines)
    THEN [out |-> out, map |-> map]
    ELSE LET line == text.lines[i]
             hasNl == i < Len(text.lines) \/ text.nl
         IN  IF EnvKeyIn(line, map)
             THEN RewriteText(text, i + 1, Pop(map, line[1]),
                              Append(out, Definition(line[1], map[line[1]])))
             ELSE RewriteText(text, i + 1, map,
                              IF hasNl THEN out \o <<line, <<>>>> ELSE Append(out, line))

UnwrittenText(map, order) == [i \in DOMAIN order |-> Definition(order[i], map[order[i]])]

NoStep == [lines |-> <<>>, nl |-> TRUE, op |-> "none", before |-> <<>>]

Stepped(text, op) == [lines |-> text.lines, nl |-> text.nl, op |-> op, before |-> etc.lines]

(***************************************************************************)
(* LogstashInstaller._create_logstash_environment_variables                *)
(***************************************************************************)
_create_logstash_environment_variables ==
    /\ Len(etc.lines) <= MaxEtcLen
    /\ etc' = Stepped(AppendMissing(Text(etc.lines, etc.nl), LogstashKeys, 1), "logstash")
    /\ OnlySetup

(***************************************************************************)
(* ElastiFlowInstaller.setup_logstash_elastiflow, from its first test of   *)
(* /etc/environment: the four keys, then                                   *)
(* ElastiflowConfigurator().write_environment_variables().                 *)
(***************************************************************************)
setup_logstash_elastiflow ==
    /\ Len(etc.lines) <= MaxEtcLen
    /\ LET r == RewriteText(AppendMissing(Text(etc.lines, etc.nl), ElastiflowKeys, 1),
                            1, Defaults, <<>>)
       IN  \E order \in Orders(DOMAIN r.map) :
              etc' = Stepped(Text(r.out \o UnwrittenText(r.map, order), TRUE), "elastiflow")
    /\ OnlySetup

SetupIdle == etc = NoStep

(***************************************************************************)
(* The specification of the Process Supervisor and the Profiler.           *)
(***************************************************************************)
Init ==
    /\ pidFile \in PidFiles
    /\ runDir \in DirStates
    /\ pidFile /= Absent => runDir /= "absent"
    /\ envFile \in BOOLEAN
    /\ yml \in YmlStates
    /\ procs \in SUBSET Pids
    /\ pending = 0
    /\ pc = "none"
    /\ pid = NoPid
    /\ retry = 0
    /\ attempts = 0
    /\ alive = FALSE
    /\ call = NoCall
    /\ prev = Summary(NoCall)
    /\ EnvIdle
    /\ CfgIdle
    /\ FetchIdle
    /\ AgentIdle
    /\ InstIdle
    /\ SetupIdle

Next ==
    \/ Construct
    \/ StartBegin
    \/ start_shell_out
    \/ StartPoll
    \/ StopBegin
    \/ StopSignal
    \/ StopPoll
    \/ ProcExit
    \/ Profile

Spec == Init /\ [][Next]_vars

ProcIdle ==
    /\ pidFile = Absent
    /\ runDir = "absent"
    /\ envFile = TRUE
    /\ yml = "absent"
    /\ procs = {}
    /\ pending = 0
    /\ pc = "none"
    /\ pid = NoPid
    /\ retry = 0
    /\ attempts = 0
    /\ alive = FALSE
    /\ call = NoCall
    /\ prev = Summary(NoCall)

(***************************************************************************)
(* The specification of the Environment Store.                             *)
(***************************************************************************)
InitEnv ==
    /\ environ \in SeqsUpTo(EnvLines, MaxLines)
    /\ envNl \in BOOLEAN
    /\ environ = <<>> => envNl
    /\ efVars \in [ManagedKeys -> EnvVals]
    /\ envOp = "none"
    /\ envPrev = <<>>
    /\ ProcIdle
    /\ CfgIdle
    /\ FetchIdle
    /\ AgentIdle
    /\ InstIdle
    /\ SetupIdle

NextEnv ==
    \/ write_environment_variables

SpecEnv == InitEnv /\ [][NextEnv]_vars

(***************************************************************************)
(* The specification of the Config File Editor.                            *)
(***************************************************************************)
JvmDefault == <<JvmLine("-Xms", "1g"), JvmLine("-Xmx", "1g")>>

InitCfg ==
    /\ ymlFile \in {File(lines, TRUE) : lines \in SeqsUpTo(Strings(MaxLineLen), MaxYmlLines)}
                   \cup {NoFile}
    /\ jvmFile \in {NoFile, File(JvmDefault, TRUE)}
    /\ backups = [yml |-> {}, jvm |-> {}]
    /\ config = NoConfig
    /\ cfgHist = NoHist
    /\ ProcIdle
    /\ EnvIdle
    /\ FetchIdle
    /\ AgentIdle
    /\ InstIdle
    /\ SetupIdle

NextCfg ==
    \/ Load
    \/ Set
    \/ SetJvm
    \/ write_configs

SpecCfg == InitCfg /\ [][NextCfg]_vars

(***************************************************************************)
(* The specification of the Config File Editor over the jvm.options files: *)
(* heap lines, other options, comments and empty lines.                    *)
(***************************************************************************)
JvmLines == {JvmLine("-Xms", "1g"), JvmLine("-Xmx", "1g"), JvmLine("-XX:+UseG1GC", ""),
             JvmLine("#", ""), JvmBlank}

InitJvm ==
    /\ ymlFile = File(<<>>, TRUE)
    /\ jvmFile \in {File(lines, nl) : lines \in SeqsUpTo(JvmLines, MaxJvmLines),
                                      nl \in BOOLEAN}
    /\ jvmFile.lines = <<>> => jvmFile.nl
    /\ backups = [yml |-> {}, jvm |-> {}]
    /\ config = NoConfig
    /\ cfgHist = NoHist
    /\ ProcIdle
    /\ EnvIdle
    /\ FetchIdle
    /\ AgentIdle
    /\ InstIdle
    /\ SetupIdle

NextJvm ==
    \/ Load
    \/ SetJvm
    \/ write_configs

SpecJvm == InitJvm /\ [][NextJvm]_vars

(***************************************************************************)
(* The specification of the Archive Fetcher.                               *)
(***************************************************************************)
InitFetch ==
    /\ mirrors \in [Archives -> MirrorFiles]
    /\ fetch = NoFetch
    /\ ProcIdle
    /\ EnvIdle
    /\ CfgIdle
    /\ AgentIdle
    /\ InstIdle
    /\ SetupIdle

NextFetch ==
    \/ download_logstash
    \/ download_elasticflow

SpecFetch == InitFetch /\ [][NextFetch]_vars

(***************************************************************************)
(* The specification of the agent.                                         *)
(***************************************************************************)
InitAgent ==
    /\ zeek \in Components
    /\ filebeat \in Components
    /\ zeek.is_running => zeek.is_installed
    /\ filebeat.is_running => filebeat.is_installed
    /\ agent = NoAgent
    /\ ProcIdle
    /\ EnvIdle
    /\ CfgIdle
    /\ FetchIdle
    /\ InstIdle
    /\ SetupIdle

NextAgent ==
    \/ install_agent
    \/ start_agent
    \/ stop_agent

SpecAgent == InitAgent /\ [][NextAgent]_vars

(***************************************************************************)
(* The specification of install_logstash.                                  *)
(***************************************************************************)
InitInstall ==
    /\ inst = NoInstall
    /\ ProcIdle
    /\ EnvIdle
    /\ CfgIdle
    /\ FetchIdle
    /\ AgentIdle
    /\ SetupIdle

NextInstall ==
    \/ install_logstash
    \/ InstallStep

SpecInstall == InitInstall /\ [][NextInstall]_vars

(***************************************************************************)
(* The specification of the installers' environment step.                  *)
(***************************************************************************)
InitSetup ==
    /\ etc \in {[NoStep EXCEPT !.lines = lines, !.nl = nl] :
                    lines \in SeqsUpTo(TextLines, MaxEtcLines), nl \in BOOLEAN}
    /\ etc.lines = <<>> => etc.nl
    /\ ProcIdle
    /\ EnvIdle
    /\ CfgIdle
    /\ FetchIdle
    /\ AgentIdle
    /\ InstIdle

NextSetup ==
    \/ _create_logstash_environment_variables
    \/ setup_logstash_elastiflow

SpecSetup == InitSetup /\ [][NextSetup]_vars

(***************************************************************************)
(* C1. A start() that directly follows a start() which returned True, with *)
(* the PID on record alive at its entry, launches nothing, reports that    *)
(* PID and returns True.                                                   *)
(***************************************************************************)
SecondStart ==
    /\ call.op = "start"
    /\ prev.op = "start"
    /\ prev.ret = "True"
    /\ call.alive0

C1_SecondStartSpawnsNothing ==
    SecondStart =>
        /\ ~call.launched
        /\ call.ret /= "none" => (call.ret = "True" /\ call.said = call.pid0)

(***************************************************************************)
(* C2. stop() with no valid PID on record (pid = -1) raises nothing, sends *)
(* no signal and returns True, after a single pass of its loop.            *)
(***************************************************************************)
StopWithoutPid == call.op = "stop" /\ call.pid0 = NoPid

C2_StopWithoutPidIsTrivial ==
    StopWithoutPid =>
        /\ call.signals = <<>>
        /\ call.ret \in {"none", "True"}
        /\ pc = "idle" => call.ret = "True"
        /\ pc = "stop_signal" => attempts = 0

C2_Witness ==
    /\ StopWithoutPid
    /\ pidFile.kind \in {"absent", "garbage"}
    /\ pc = "idle"
    /\ call.ret = "True"

(***************************************************************************)
(* C3. After write_environment_variables, a managed key that had a         *)
(* KEY=value line has its new value on that same line of the file, and the *)
(* lines of all other keys are the same lines in the same order.           *)
(***************************************************************************)
HasKey(line, k) == line.eq /\ line.key = k

OnlyLineOf(lines, i) ==
    /\ lines[i].eq
    /\ lines[i].key \in ManagedKeys
    /\ \A j \in DOMAIN lines : HasKey(lines[j], lines[i].key) => j = i

IsOtherKeyLine(line) == line.eq /\ line.key \notin ManagedKeys

C3_ReplacedInPlace ==
    envOp = "write" =>
        /\ \A i \in DOMAIN envPrev :
              OnlyLineOf(envPrev, i) =>
                  /\ i \in DOMAIN environ
                  /\ environ[i] = KeyLine(envPrev[i].key, efVars[envPrev[i].key])
        /\ SelectSeq(environ, IsOtherKeyLine) = SelectSeq(envPrev, IsOtherKeyLine)

(***************************************************************************)
(* C4. After write_environment_variables, a managed key that had no        *)
(* KEY=value line has exactly one, with the configurator's value, and it   *)
(* is appended: only appended lines follow it.                             *)
(***************************************************************************)
Missing(lines, k) == \A j \in DOMAIN lines : ~HasKey(lines[j], k)

LinesOf(lines, k) == {j \in DOMAIN lines : HasKey(lines[j], k)}

C4_MissingKeyAppendedOnce ==
    envOp = "write" =>
        \A k \in ManagedKeys :
            Missing(envPrev, k) =>
                /\ Cardinality(LinesOf(environ, k)) = 1
                /\ \A j \in LinesOf(environ, k) :
                      /\ environ[j] = KeyLine(k, efVars[k])
                      /\ \A h \in DOMAIN environ :
                            h > j => \E m \in ManagedKeys :
                                       /\ Missing(envPrev, m)
                                       /\ HasKey(environ[h], m)

C4_Witness ==
    /\ envOp = "write"
    /\ envPrev /= <<>>
    /\ \E k \in ManagedKeys : Missing(envPrev, k) /\ LinesOf(environ, k) /= {}
    /\ \E k \in ManagedKeys : ~Missing(envPrev, k)

(***************************************************************************)
(* C5. Load, set a known key (to any value), write_configs, load again:    *)
(* the second load succeeds, the getter of every key that was set returns  *)
(* the value given to its setter, and every other key of the first load    *)
(* returns the value it had then.                                          *)
(***************************************************************************)
RoundTripDone == cfgHist.op \in {"reload", "reload_raised"} /\ cfgHist.sets /= {}

C5_SetSaveReload ==
    RoundTripDone =>
        /\ cfgHist.op = "reload"
        /\ \A key \in cfgHist.sets :
              get(config.ls_config_options, key) = get(cfgHist.wrote, key)
        /\ \A key \in Keys(cfgHist.base) \ cfgHist.sets :
              get(config.ls_config_options, key) = get(cfgHist.base, key)

(***************************************************************************)
(* C6. A download tries the mirrors in file order, one after the other,    *)
(* tries none after the first that succeeds, and goes on to the next after *)
(* one that fails.                                                         *)
(***************************************************************************)
C6_MirrorsInOrder ==
    fetch.archive /= "none" =>
        LET urls == mirrors[fetch.archive]
            tried == fetch.attempted
        IN  /\ Len(tried) <= Len(urls)
            /\ \A j \in DOMAIN tried :
                  /\ tried[j] = j
                  /\ urls[j] = "good" => (j = Len(tried) /\ fetch.done)
            /\ fetch.done =>
                  \/ Len(tried) = Len(urls)
                  \/ urls[Len(tried)] = "good"

C6_Witness ==
    /\ fetch.done
    /\ Len(mirrors[fetch.archive]) >= 3
    /\ mirrors[fetch.archive][1] = "bad"
    /\ mirrors[fetch.archive][2] = "good"
    /\ fetch.attempted = <<1, 2>>

(***************************************************************************)
(* C7. When install_agent returns without having refused (nothing was      *)
(* running) and Zeek and FileBeat are both installed, it returns True.     *)
(***************************************************************************)
C7_InstalledMeansTrue ==
    (/\ agent.op = "install"
     /\ ~agent.refused
     /\ zeek.is_installed
     /\ filebeat.is_installed) => agent.ret = "True"

(***************************************************************************)
(* C8. stop_agent returns True only when Zeek's stop() and FileBeat's      *)
(* stop() were both called and both reported success.                      *)
(***************************************************************************)
C8_TrueMeansStopped ==
    (agent.op = "stop" /\ agent.ret = "True") =>
        /\ agent.zeek_stopped = "True"
        /\ agent.filebeat_stopped = "True"

(***************************************************************************)
(* C9. install_logstash called with less memory available than the         *)
(* minimum returns False and takes no step of the installation.            *)
(***************************************************************************)
InstallCalled == inst.pc /= 0 \/ inst.ret /= "none"

C9_NoEffectBelowMinimum ==
    (InstallCalled /\ inst.mem < MinMemory) =>
        /\ inst.effects = <<>>
        /\ inst.pc = 0
        /\ inst.ret = "False"

C9_Witness ==
    /\ InstallCalled
    /\ inst.mem = MinMemory - 1
    /\ inst.install_jdk
    /\ inst.create_dynamite_user
    /\ inst.ret = "False"

(***************************************************************************)
(* C10. Building a LogstashProfiler snapshot changes nothing on the        *)
(* filesystem: the run directory, the PID file, /etc/environment and the   *)
(* configuration files are the same before and after.                      *)
(***************************************************************************)
C10_ProfilerNeverMutates ==
    [][Profile => UNCHANGED <<pidFile, runDir, envFile, yml>>]_vars


(***************************************************************************)
(* C11. Each load of the PID from the PID file, in __init__ and in every   *)
(* poll of start(), records the integer in the file plus one; with the     *)
(* file missing or not an integer the PID on record is the sentinel and no *)
(* exception leaves the operation.                                         *)
(***************************************************************************)
Loaded == IF pidFile.kind = "int" THEN pidFile.n + PidOffset ELSE NoPid

C11_PidLoadNeverRaises ==
    [][/\ (Construct /\ pc' = "idle") => pid' = Loaded
       /\ StartPoll => (call'.ret /= "raised" /\ pid' = Loaded)]_vars

(***************************************************************************)
(* C12. Once stop() has returned True no valid PID is on record: the       *)
(* instance's pid is the sentinel, and so is the pid of a LogstashProcess  *)
(* constructed next, which reads it from the PID file.                     *)
(***************************************************************************)
StoppedTrue(c) == c.op = "stop" /\ c.ret = "True"

C12_StoppedMeansNoPid ==
    /\ StoppedTrue(call) => pid = NoPid
    /\ (call.op = "init" /\ pc = "idle" /\ StoppedTrue(prev)) => pid = NoPid

(***************************************************************************)
(* C13. In one stop() on a PID that is not the sentinel, every attempt     *)
(* sends one signal: the first four send SIGTERM, all later ones SIGKILL   *)
(* (so no SIGTERM follows a SIGKILL), and a signal is only sent while the  *)
(* last liveness poll found the process alive.                             *)
(***************************************************************************)
StopWithPid == call.op = "stop" /\ call.pid0 /= NoPid

C13_TermThenKill ==
    StopWithPid =>
        /\ \A i \in DOMAIN call.signals :
              call.signals[i] = IF i <= TermAttempts + 1 THEN "SIGTERM" ELSE "SIGKILL"
        /\ pc = "stop_signal" => (alive /\ Len(call.signals) = attempts)
        /\ pc = "stop_poll" => Len(call.signals) = attempts
        /\ pc = "idle" => ~alive

C13_Witness ==
    /\ StopWithPid
    /\ call.alive0
    /\ call.signals = <<"SIGTERM", "SIGTERM", "SIGTERM", "SIGTERM", "SIGKILL">>
    /\ call.ret = "True"

(***************************************************************************)
(* C14. When os.kill fails in stop() (the process is gone, or the caller   *)
(* may not signal it), that step ends the call with False: nothing is      *)
(* raised, and the call sends no further signal and polls no more.         *)
(***************************************************************************)
KillFailed == StopSignal /\ Kills(pid) /\ call'.signals = call.signals

C14_KillErrorReturnsFalse ==
    [][/\ KillFailed => (call'.ret = "False" /\ pc' = "idle")
       /\ (call.op = "stop" /\ call.ret = "False") =>
              (~StopSignal /\ ~StopPoll)]_vars

C14_Witness ==
    /\ call.op = "stop"
    /\ call.ret = "False"
    /\ call.signals = <<"SIGTERM", "SIGTERM">>
    /\ pid \in procs
    /\ pc = "idle"

(***************************************************************************)
(* C15. After the launch start() polls at most 6 times. A poll that finds  *)
(* the PID file readable and the PID it holds, plus one, alive ends the    *)
(* call with True; a poll that finds the file absent or that PID not alive *)
(* is a failed poll, after which start() polls again, except that the 6th  *)
(* poll, failing, ends the call with False.                                *)
(***************************************************************************)
PollSucceeds == pidFile.kind = "int" /\ check_pid(Loaded)

PollFails == pidFile.kind = "absent" \/ (pidFile.kind = "int" /\ ~check_pid(Loaded))

C15_AtMostSixPolls ==
    [][StartPoll =>
          /\ call.polls < MaxRetry
          /\ call'.polls = call.polls + 1
          /\ PollSucceeds => (call'.ret = "True" /\ pc' = "idle" /\ pid' = Loaded)
          /\ PollFails =>
                IF call.polls + 1 = MaxRetry
                THEN call'.ret = "False" /\ pc' = "idle"
                ELSE call'.ret = "none" /\ pc' = "poll"]_vars

C15_Witness ==
    /\ call.op = "start"
    /\ call.polls = MaxRetry
    /\ call.ret = "False"
    /\ pidFile.kind = "int"
    /\ pc = "idle"

(***************************************************************************)
(* C16. Both waits of the Supervisor are bounded: start() is in its poll   *)
(* loop only with fewer than 6 failed polls behind it, and stop() is in    *)
(* its loop only with fewer attempts behind it than a fixed maximum, even  *)
(* when the process does not exit. stop() has no maximum of its own; the   *)
(* formula takes MaxAttempts, the number of attempts explored.             *)
(***************************************************************************)
C16_WaitsAreBounded ==
    /\ pc = "poll" => retry < MaxRetry
    /\ pc \in {"stop_signal", "stop_poll"} => attempts <= MaxAttempts
    /\ (pc = "stop_signal" /\ alive) => attempts < MaxAttempts

(***************************************************************************)
(* C17. A write_configs that succeeds leaves jvm.options with as many      *)
(* lines as it had, and every line that is not a -Xms or -Xmx line is the  *)
(* same line at the same place.                                            *)
(***************************************************************************)
IsHeapLine(line) == line.flag \in {"-Xms", "-Xmx"}

C17_OtherJvmLinesKept ==
    cfgHist.op = "write" =>
        /\ Len(jvmFile.lines) = Len(cfgHist.jvm.lines)
        /\ \A i \in DOMAIN cfgHist.jvm.lines :
              ~IsHeapLine(cfgHist.jvm.lines[i]) =>
                  (i \in DOMAIN jvmFile.lines /\ jvmFile.lines[i] = cfgHist.jvm.lines[i])

(***************************************************************************)
(* C18. Loading a logstash.yml never fails on a line that has a ':': every *)
(* such line that is no comment is split at its first ':', the text before *)
(* it being the key and the text after it, trimmed and without quote       *)
(* characters, the value the configurator holds for that key (the last     *)
(* line of a key winning).                                                 *)
(***************************************************************************)
FirstDelimiter(str) == CHOOSE i \in DOMAIN str : str[i] = ":" /\ \A j \in 1 .. i - 1 : str[j] /= ":"

KeyOf(line) == SubSeq(strip(line), 1, FirstDelimiter(strip(line)) - 1)

ValueOf(line) ==
    unquote(strip(SubSeq(strip(line), FirstDelimiter(strip(line)) + 1, Len(strip(line)))))

FirstLoadDone == cfgHist.op \in {"load", "load_raised"} /\ ymlFile.exists

C18_SplitOnFirstDelimiter ==
    FirstLoadDone =>
        /\ cfgHist.op = "load"
        /\ \A i \in DOMAIN ymlFile.lines :
              (/\ IsEntry(ymlFile.lines[i])
               /\ \A j \in DOMAIN ymlFile.lines :
                     (j > i /\ IsEntry(ymlFile.lines[j])) =>
                         KeyOf(ymlFile.lines[j]) /= KeyOf(ymlFile.lines[i]))
              => get(config.ls_config_options, KeyOf(ymlFile.lines[i]))
                     = ValueOf(ymlFile.lines[i])

(***************************************************************************)
(* C20. write_environment_variables run again, directly after a run and    *)
(* with the same configurator values, leaves /etc/environment as the first *)
(* run left it.                                                            *)
(***************************************************************************)
C20_SecondWriteChangesNothing ==
    [][(envOp = "write" /\ write_environment_variables) =>
           (environ' = environ /\ envNl' = envNl)]_vars

(***************************************************************************)
(* C19. After an installer's environment step each of its expected keys    *)
(* that no line of /etc/environment defined has exactly one line defining  *)
(* it, and a key that was defined has as many defining lines as before.    *)
(***************************************************************************)
Defines(line, k) == Len(line) >= 2 /\ line[1] = k /\ line[2] = "="

Defining(lines, k) == {i \in DOMAIN lines : Defines(lines[i], k)}

KeysOfStep == IF etc.op = "logstash" THEN LogstashKeys ELSE ElastiflowKeys

C19_MissingKeysAppended ==
    etc.op /= "none" =>
        \A n \in DOMAIN KeysOfStep :
            Cardinality(Defining(etc.lines, KeysOfStep[n])) =
                IF Defining(etc.before, KeysOfStep[n]) = {}
                THEN 1
                ELSE Cardinality(Defining(etc.before, KeysOfStep[n]))

(***************************************************************************)
(* C21. When a start() that launched returns True, the PID on record is    *)
(* the one its own launcher task wrote to the PID file, plus one: the task *)
(* has run, and the PID reported is not read from a file that an earlier   *)
(* launch left behind.                                                     *)
(***************************************************************************)
StartedTrue == call.op = "start" /\ call.launched /\ call.ret = "True"

C21_PidIsOfThisLaunch ==
    StartedTrue => (call.wrote /= NoPid /\ call.said = call.wrote + PidOffset)

(***************************************************************************)
(* C22. stop() returns False only while the process of the PID on record   *)
(* is alive: at the step that ends stop() with False that process is still *)
(* running, whenever it may have exited before that step.                  *)
(***************************************************************************)
C22_FalseMeansStillAlive ==
    [][((StopSignal \/ StopPoll) /\ call'.ret = "False") => pid' \in procs']_vars

(***************************************************************************)
(* C23. write_configs never loses the service configuration: whether it    *)
(* returns or raises, a logstash.yml that was in the configuration         *)
(* directory before the call is there after it, and when it returns the    *)
(* content logstash.yml had before the call is in config_backups.          *)
(***************************************************************************)
C23_ConfigNeverLost ==
    [][write_configs =>
          /\ ymlFile.exists => ymlFile'.exists
          /\ cfgHist'.op = "write" => ymlFile.lines \in backups'.yml]_vars
====
